---- MODULE Spec2Model ----
(***************************************************************************)
(* A model of ExperisBowling::Game (src/Game.hpp), the ten-pin bowling     *)
(* scorer, driven by a caller that feeds it the tokens of the console     *)
(* front end (src/Main.cpp): a number is Roll(number), "x" is RollStrike() *)
(* and "/" is RollSpare().                                                 *)
(***************************************************************************)
EXTENDS Integers, Sequences, FiniteSets, TLC

(***************************************************************************)
(* Constants of Game (src/Game.hpp:13-20).                                 *)
(***************************************************************************)
FinalFrame == 10
FirstBonusFrame == FinalFrame + 1
SecondBonusFrame == FinalFrame + 2
MaxFrames == FinalFrame + 2
NumPins == 10
SpareBonusRolls == 1
StrikeBonusRolls == 2

(***************************************************************************)
(* Bounds of the exploration.                                              *)
(***************************************************************************)
\* The caller repeats a token pattern of at most this many tokens.
MaxPeriod == 3

\* A caller that improvises from the final frame on fills the frames before
\* it with a pattern of at most this many tokens.
MaxFillerPeriod == 1

\* The pin counts the caller passes to Roll: gutter, open and spare
\* combinations, a strike, and a count above NumPins.
RollArgs == {0, 2, 5, 8, 10, 11}

\* The tokens of the front end: a pin count, "x" (strike) or "/" (spare).
Pins(n) == [kind |-> "pins", n |-> n]

StrikeToken == [kind |-> "x", n |-> 0]

SpareToken == [kind |-> "/", n |-> 0]

Tokens == {Pins(n) : n \in RollArgs} \cup {StrikeToken, SpareToken}

(***************************************************************************)
(* std::optional<unsigned> is a sequence of at most one element.           *)
(***************************************************************************)
NullOpt == << >>

HasValue(o) == o # NullOpt

ValueOr(o, d) == IF HasValue(o) THEN o[1] ELSE d

(***************************************************************************)
(* struct Frame with its default member initialisers, and the array of    *)
(* MaxFrames frames indexed from 0.                                       *)
(***************************************************************************)
Frame ==
    [ bonusRolls       |-> 0,
      currentScore     |-> 0,
      isSpare          |-> FALSE,
      isStrike         |-> FALSE,
      pinsOnFirstRoll  |-> NullOpt,
      pinsOnSecondRoll |-> NullOpt,
      totalScore       |-> 0 ]

FrameIndex == 0 .. (MaxFrames - 1)

NewFrames == [i \in FrameIndex |-> Frame]

VARIABLES
    currentRound,   \* Game::currentRound
    frames,         \* Game::frames
    lastOp,         \* the public operation called last ("none" before any)
    lastArg,        \* the pinCount that call handed to Roll (-1 when none)
    lastResult,     \* what that call returned
    hist,           \* the accepted calls so far, in order
    pattern,        \* the caller's token pattern
    pos,            \* the next token of the pattern
    improvise       \* whether the caller leaves its pattern from the final frame on

vars == <<currentRound, frames, lastOp, lastArg, lastResult, hist, pattern, pos, improvise>>

(***************************************************************************)
(* Private helpers of Game.                                                *)
(***************************************************************************)
IsSpare(fr, round) ==
    ValueOr(fr[round].pinsOnFirstRoll, 0) + ValueOr(fr[round].pinsOnSecondRoll, 0) = NumPins

IsStrike(fr, round) ==
    fr[round].pinsOnFirstRoll = <<NumPins>>

\* CheckRoll that forgets the pins the first roll already took.
CheckRollIgnoresFirstRoll(fr, pinCount, round) ==
    pinCount <= NumPins

(***************************************************************************)
(* Game::CheckRoll.  Roll calls it only with pinCount <= NumPins, and a    *)
(* recorded first roll is at most NumPins, so the unsigned sum never wraps.*)
(***************************************************************************)
CheckRoll(fr, pinCount, round) ==
    IF ~HasValue(fr[round].pinsOnFirstRoll)
    THEN pinCount <= NumPins
    ELSE fr[round].pinsOnFirstRoll[1] + pinCount <= NumPins

(***************************************************************************)
(* Game::GetScore: the last frame with a non-zero totalScore, else the     *)
(* first frame's currentScore.                                             *)
(***************************************************************************)
Scored(fr) == {i \in FrameIndex : fr[i].totalScore > 0}

\* GetScore that adds the points of the frame after the last totalled one.
GetScoreAddsFrameInPlay(fr) ==
    IF Scored(fr) # {}
    THEN LET last == CHOOSE i \in Scored(fr) : \A j \in Scored(fr) : j <= i
         IN  fr[last].totalScore + fr[last + 1].currentScore
    ELSE fr[0].currentScore

GetScore(fr) ==
    IF Scored(fr) # {}
    THEN fr[CHOOSE i \in Scored(fr) : \A j \in Scored(fr) : j <= i].totalScore
    ELSE fr[0].currentScore

\* IsGameComplete that misses the game ending on an open final frame.
IsGameCompleteMissesOpenFinalFrame(cr, fr) ==
    IF cr <= FirstBonusFrame - 1 THEN FALSE
    ELSE IF cr = SecondBonusFrame - 1
         THEN ~(IsStrike(fr, FinalFrame - 1) /\ fr[FinalFrame - 1].bonusRolls > 0)
    ELSE TRUE

\* IsGameComplete that does not look at the final frame's pending bonus rolls.
IsGameCompleteIgnoresBonusRolls(cr, fr) ==
    IF cr <= FinalFrame - 1 THEN FALSE
    ELSE IF cr = FirstBonusFrame - 1
         THEN ~IsSpare(fr, FinalFrame - 1) /\ ~IsStrike(fr, FinalFrame - 1)
    ELSE IF cr = SecondBonusFrame - 1
         THEN ~IsStrike(fr, FinalFrame - 1)
    ELSE TRUE

(***************************************************************************)
(* Game::IsGameComplete                                                    *)
(***************************************************************************)
IsGameComplete(cr, fr) ==
    IF cr <= FinalFrame - 1 THEN FALSE
    ELSE IF cr = FirstBonusFrame - 1
         THEN ~IsSpare(fr, FinalFrame - 1) /\ ~IsStrike(fr, FinalFrame - 1)
    ELSE IF cr = SecondBonusFrame - 1
         THEN ~(IsStrike(fr, FinalFrame - 1) /\ fr[FinalFrame - 1].bonusRolls > 0)
    ELSE TRUE

(***************************************************************************)
(* Game::Roll, in the order of its statements.                             *)
(***************************************************************************)
\* "add in points until the final frame"
AddPoints(fr, cr, pinCount) ==
    IF cr <= FinalFrame - 1
    THEN [fr EXCEPT ![cr].currentScore = @ + pinCount]
    ELSE fr

\* Roll without the look-back of two frames.
BonusTwoPriorSkipped(fr, cr, pinCount) == fr

\* The look-back of two frames credits the frame whether or not a bonus
\* roll is owed to it.
BonusTwoPriorUnconditional(fr, cr, pinCount) ==
    IF cr >= 2
    THEN LET f1 == [fr EXCEPT ![cr - 2].currentScore = @ + pinCount,
                              ![cr - 2].bonusRolls = @ - 1]
         IN  IF f1[cr - 2].bonusRolls = 0
             THEN IF cr >= 3
                  THEN [f1 EXCEPT ![cr - 2].totalScore =
                                      f1[cr - 3].totalScore + f1[cr - 2].currentScore]
                  ELSE [f1 EXCEPT ![cr - 2].totalScore = f1[cr - 2].currentScore]
             ELSE f1
    ELSE fr

\* The frame two prior is totalled on top of the frame two before it, not
\* the frame just before it.
BonusTwoPriorSkipsAFrame(fr, cr, pinCount) ==
    IF cr >= 2 /\ fr[cr - 2].bonusRolls > 0
    THEN LET f1 == [fr EXCEPT ![cr - 2].currentScore = @ + pinCount,
                              ![cr - 2].bonusRolls = @ - 1]
         IN  IF f1[cr - 2].bonusRolls = 0
             THEN IF cr >= 4
                  THEN [f1 EXCEPT ![cr - 2].totalScore =
                                      f1[cr - 4].totalScore + f1[cr - 2].currentScore]
                  ELSE [f1 EXCEPT ![cr - 2].totalScore = f1[cr - 2].currentScore]
             ELSE f1
    ELSE fr

\* "compute bonus points from two frames prior"
BonusTwoPrior(fr, cr, pinCount) ==
    IF cr >= 2 /\ fr[cr - 2].bonusRolls > 0
    THEN LET f1 == [fr EXCEPT ![cr - 2].currentScore = @ + pinCount,
                              ![cr - 2].bonusRolls = @ - 1]
         IN  IF f1[cr - 2].bonusRolls = 0
             THEN IF cr >= 3
                  THEN [f1 EXCEPT ![cr - 2].totalScore =
                                      f1[cr - 3].totalScore + f1[cr - 2].currentScore]
                  ELSE [f1 EXCEPT ![cr - 2].totalScore = f1[cr - 2].currentScore]
             ELSE f1
    ELSE fr

\* The previous frame totalled without the total carried into it.
BonusPreviousOwnScoreOnly(fr, cr, pinCount) ==
    IF cr >= 1 /\ fr[cr - 1].bonusRolls > 0
    THEN LET f1 == [fr EXCEPT ![cr - 1].currentScore = @ + pinCount,
                              ![cr - 1].bonusRolls = @ - 1]
         IN  IF f1[cr - 1].bonusRolls = 0
             THEN [f1 EXCEPT ![cr - 1].totalScore = f1[cr - 1].currentScore]
             ELSE f1
    ELSE fr

\* "compute bonus points from the previous frame"
BonusPrevious(fr, cr, pinCount) ==
    IF cr >= 1 /\ fr[cr - 1].bonusRolls > 0
    THEN LET f1 == [fr EXCEPT ![cr - 1].currentScore = @ + pinCount,
                              ![cr - 1].bonusRolls = @ - 1]
         IN  IF f1[cr - 1].bonusRolls = 0
             THEN IF cr >= 2
                  THEN [f1 EXCEPT ![cr - 1].totalScore =
                                      f1[cr - 2].totalScore + f1[cr - 1].currentScore]
                  ELSE [f1 EXCEPT ![cr - 1].totalScore = f1[cr - 1].currentScore]
             ELSE f1
    ELSE fr

\* A strike that earns one bonus roll, as a spare does.
FirstRollStrikeEarnsOne(fr, cr, pinCount) ==
    LET f1 == [fr EXCEPT ![cr].pinsOnFirstRoll = <<pinCount>>]
    IN  IF IsStrike(f1, cr)
        THEN [ currentRound |-> cr + 1,
               frames |-> [f1 EXCEPT ![cr].bonusRolls = SpareBonusRolls,
                                     ![cr].isStrike = TRUE] ]
        ELSE IF cr = FirstBonusFrame - 1 /\ IsSpare(f1, FinalFrame - 1)
        THEN [ currentRound |-> cr + 1, frames |-> f1 ]
        ELSE IF /\ cr = SecondBonusFrame - 1
                /\ IsStrike(f1, FinalFrame - 1)
                /\ IsStrike(f1, FirstBonusFrame - 1)
        THEN [ currentRound |-> cr + 1, frames |-> f1 ]
        ELSE [ currentRound |-> cr, frames |-> f1 ]

\* The first bonus roll after a spare in the final frame does not leave its slot.
FirstRollNoSpareExit(fr, cr, pinCount) ==
    LET f1 == [fr EXCEPT ![cr].pinsOnFirstRoll = <<pinCount>>]
    IN  IF IsStrike(f1, cr)
        THEN [ currentRound |-> cr + 1,
               frames |-> [f1 EXCEPT ![cr].bonusRolls = StrikeBonusRolls,
                                     ![cr].isStrike = TRUE] ]
        ELSE IF /\ cr = SecondBonusFrame - 1
                /\ IsStrike(f1, FinalFrame - 1)
                /\ IsStrike(f1, FirstBonusFrame - 1)
        THEN [ currentRound |-> cr + 1, frames |-> f1 ]
        ELSE [ currentRound |-> cr, frames |-> f1 ]

\* A strike that leaves the cursor on its frame.
FirstRollStrikeStays(fr, cr, pinCount) ==
    LET f1 == [fr EXCEPT ![cr].pinsOnFirstRoll = <<pinCount>>]
    IN  IF IsStrike(f1, cr)
        THEN [ currentRound |-> cr,
               frames |-> [f1 EXCEPT ![cr].bonusRolls = StrikeBonusRolls,
                                     ![cr].isStrike = TRUE] ]
        ELSE IF cr = FirstBonusFrame - 1 /\ IsSpare(f1, FinalFrame - 1)
        THEN [ currentRound |-> cr + 1, frames |-> f1 ]
        ELSE IF /\ cr = SecondBonusFrame - 1
                /\ IsStrike(f1, FinalFrame - 1)
                /\ IsStrike(f1, FirstBonusFrame - 1)
        THEN [ currentRound |-> cr + 1, frames |-> f1 ]
        ELSE [ currentRound |-> cr, frames |-> f1 ]

\* Every first roll, strike or not, moves the cursor on.
FirstRollAlwaysAdvances(fr, cr, pinCount) ==
    LET f1 == [fr EXCEPT ![cr].pinsOnFirstRoll = <<pinCount>>]
    IN  IF IsStrike(f1, cr)
        THEN [ currentRound |-> cr + 1,
               frames |-> [f1 EXCEPT ![cr].bonusRolls = StrikeBonusRolls,
                                     ![cr].isStrike = TRUE] ]
        ELSE [ currentRound |-> cr + 1, frames |-> f1 ]

\* The first roll of the frame: record it, then the three ways to leave the
\* frame without a second roll.
FirstRoll(fr, cr, pinCount) ==
    LET f1 == [fr EXCEPT ![cr].pinsOnFirstRoll = <<pinCount>>]
    IN  IF IsStrike(f1, cr)
        THEN [ currentRound |-> cr + 1,
               frames |-> [f1 EXCEPT ![cr].bonusRolls = StrikeBonusRolls,
                                     ![cr].isStrike = TRUE] ]
        ELSE IF cr = FirstBonusFrame - 1 /\ IsSpare(f1, FinalFrame - 1)
        THEN [ currentRound |-> cr + 1, frames |-> f1 ]
        ELSE IF /\ cr = SecondBonusFrame - 1
                /\ IsStrike(f1, FinalFrame - 1)
                /\ IsStrike(f1, FirstBonusFrame - 1)
        THEN [ currentRound |-> cr + 1, frames |-> f1 ]
        ELSE [ currentRound |-> cr, frames |-> f1 ]

\* The second roll totals the frame at once even when it makes a spare.
SecondRollTotalsSpare(fr, cr, pinCount) ==
    LET f1 == [fr EXCEPT ![cr].pinsOnSecondRoll = <<pinCount>>]
        f2 == IF IsSpare(f1, cr)
              THEN [f1 EXCEPT ![cr].bonusRolls = SpareBonusRolls, ![cr].isSpare = TRUE]
              ELSE f1
    IN  IF cr >= 1
        THEN [ currentRound |-> cr + 1,
               frames |-> [f2 EXCEPT ![cr].totalScore =
                                         f2[cr - 1].totalScore + f2[cr].currentScore] ]
        ELSE [ currentRound |-> cr + 1,
               frames |-> [f2 EXCEPT ![cr].totalScore = f2[cr].currentScore] ]

\* The second roll of the frame: a spare earns a bonus roll, an open frame
\* is totalled at once; the cursor advances either way.
SecondRoll(fr, cr, pinCount) ==
    LET f1 == [fr EXCEPT ![cr].pinsOnSecondRoll = <<pinCount>>]
    IN  IF IsSpare(f1, cr)
        THEN [ currentRound |-> cr + 1,
               frames |-> [f1 EXCEPT ![cr].bonusRolls = SpareBonusRolls,
                                     ![cr].isSpare = TRUE] ]
        ELSE IF cr >= 1
        THEN [ currentRound |-> cr + 1,
               frames |-> [f1 EXCEPT ![cr].totalScore =
                                         f1[cr - 1].totalScore + f1[cr].currentScore] ]
        ELSE [ currentRound |-> cr + 1,
               frames |-> [f1 EXCEPT ![cr].totalScore = f1[cr].currentScore] ]

\* Roll that records the roll in its frame, totalling an open frame, before
\* it credits the roll to the frames before.
RollOutcomeTotalsFirst(cr, fr, pinCount) ==
    IF IsGameComplete(cr, fr)
    THEN [ result |-> "GameComplete", currentRound |-> cr, frames |-> fr ]
    ELSE IF pinCount > NumPins \/ ~CheckRoll(fr, pinCount, cr)
    THEN [ result |-> "InvalidRollCount", currentRound |-> cr, frames |-> fr ]
    ELSE LET f1 == AddPoints(fr, cr, pinCount)
             g  == IF ~HasValue(f1[cr].pinsOnFirstRoll)
                   THEN FirstRoll(f1, cr, pinCount)
                   ELSE SecondRoll(f1, cr, pinCount)
             f3 == BonusPrevious(BonusTwoPrior(g.frames, cr, pinCount), cr, pinCount)
         IN  [ result |-> "ok", currentRound |-> g.currentRound, frames |-> f3 ]

\* What Roll returns and the state it leaves.
RollOutcome(cr, fr, pinCount) ==
    IF IsGameComplete(cr, fr)
    THEN [ result |-> "GameComplete", currentRound |-> cr, frames |-> fr ]
    ELSE IF pinCount > NumPins \/ ~CheckRoll(fr, pinCount, cr)
    THEN [ result |-> "InvalidRollCount", currentRound |-> cr, frames |-> fr ]
    ELSE LET f3 == BonusPrevious(BonusTwoPrior(AddPoints(fr, cr, pinCount), cr, pinCount),
                                 cr, pinCount)
             g  == IF ~HasValue(f3[cr].pinsOnFirstRoll)
                   THEN FirstRoll(f3, cr, pinCount)
                   ELSE SecondRoll(f3, cr, pinCount)
         IN  [ result |-> "ok", currentRound |-> g.currentRound, frames |-> g.frames ]

(***************************************************************************)
(* Game::RollSpare reads frames[currentRound] before any check.  With the  *)
(* cursor at MaxFrames that is a read past the end of the array: the       *)
(* optional found there may be empty or hold a value; whatever the value,  *)
(* Roll is then called with the cursor at MaxFrames, where it returns      *)
(* before it looks at pinCount (a value above NumPins only makes the       *)
(* unsigned NumPins - value wrap to a count Roll never reads).             *)
(***************************************************************************)
PastTheEnd == {NullOpt, <<0>>, <<4>>, <<NumPins>>}

SpareFirstRoll(cr, fr) ==
    IF cr \in FrameIndex THEN {fr[cr].pinsOnFirstRoll} ELSE PastTheEnd

\* RollSpare that rolls all the pins, whatever the first roll took.
SparePinsAllPins(first) == NumPins

\* NumPins - pinsOnFirstRoll.value()
SparePins(first) == NumPins - first[1]

(***************************************************************************)
(* The caller.  It repeats its pattern of tokens; an improvising caller    *)
(* may also type any token from the final frame on.                        *)
(***************************************************************************)
RECURSIVE SeqsUpTo(_, _)
SeqsUpTo(S, n) ==
    IF n = 0 THEN { << >> }
    ELSE LET shorter == SeqsUpTo(S, n - 1)
         IN  shorter \cup { Append(s, t) : s \in {x \in shorter : Len(x) = n - 1}, t \in S }

Patterns == SeqsUpTo(Tokens, MaxPeriod) \ { << >> }

Fillers == SeqsUpTo(Tokens, MaxFillerPeriod) \ { << >> }

\* RunExampleGame of src/Main.cpp, as tokens.
ExampleGame ==
    << Pins(8), SpareToken,
       Pins(5), Pins(4),
       Pins(9), Pins(0),
       StrikeToken,
       StrikeToken,
       Pins(5), SpareToken,
       Pins(5), Pins(3),
       Pins(6), Pins(3),
       Pins(9), SpareToken,
       Pins(9), SpareToken, StrikeToken >>

FreeFrom == FinalFrame - 1

NextTokens ==
    {pattern[pos]} \cup (IF improvise /\ currentRound >= FreeFrom THEN Tokens ELSE {})

Advance == pos' = (pos % Len(pattern)) + 1

Init ==
    /\ currentRound = 0
    /\ frames = NewFrames
    /\ lastOp = "none"
    /\ lastArg = -1
    /\ lastResult = "none"
    /\ hist = << >>
    /\ \/ pattern \in Patterns \cup {ExampleGame} /\ improvise = FALSE
       \/ pattern \in Fillers /\ improvise = TRUE
    /\ pos = 1

\* The state after a call of Roll(pinCount) made through operation op.
Called(op, pinCount) ==
    LET out == RollOutcome(currentRound, frames, pinCount)
    IN  /\ currentRound' = out.currentRound
        /\ frames' = out.frames
        /\ lastOp' = op
        /\ lastArg' = pinCount
        /\ lastResult' = out.result
        /\ hist' = IF out.result = "ok"
                   THEN Append(hist, [op |-> op, pins |-> pinCount])
                   ELSE hist

Roll ==
    \E t \in NextTokens :
        /\ t.kind = "pins"
        /\ Called("Roll", t.n)
        /\ Advance
        /\ UNCHANGED <<pattern, improvise>>

RollStrike ==
    /\ StrikeToken \in NextTokens
    /\ Called("RollStrike", NumPins)
    /\ Advance
    /\ UNCHANGED <<pattern, improvise>>

RollSpare ==
    /\ SpareToken \in NextTokens
    /\ \E first \in SpareFirstRoll(currentRound, frames) :
          IF ~HasValue(first)
          THEN /\ lastOp' = "RollSpare"
               /\ lastArg' = -1
               /\ lastResult' = "InvalidSpareRoll"
               /\ UNCHANGED <<currentRound, frames, hist>>
          ELSE Called("RollSpare", SparePins(first))
    /\ Advance
    /\ UNCHANGED <<pattern, improvise>>

Next == Roll \/ RollStrike \/ RollSpare

Spec == Init /\ [][Next]_vars

(***************************************************************************)
(* Reading the history.                                                    *)
(***************************************************************************)
\* The pin counts of the accepted rolls, in order.
RollList == [i \in 1 .. Len(hist) |-> hist[i].pins]

Complete == IsGameComplete(currentRound, frames)

Score == GetScore(frames)

\* The accepted calls so far began with nothing but op with pin count n, up
\* to the k-th.
OnlyCalls(op, n, k) ==
    \A i \in 1 .. Len(hist) : i <= k => hist[i] = [op |-> op, pins |-> n]

(***************************************************************************)
(* The reference scorer of ten-pin bowling, over a list of rolls: a frame  *)
(* scores its own pins, plus the next two rolls after a strike, plus the   *)
(* next roll after a spare.  A roll not yet taken counts 0.                *)
(***************************************************************************)
RollAt(r, i) == IF i \in 1 .. Len(r) THEN r[i] ELSE 0

RefFrameScore(r, i) ==
    IF RollAt(r, i) = 10 THEN 10 + RollAt(r, i + 1) + RollAt(r, i + 2)
    ELSE IF RollAt(r, i) + RollAt(r, i + 1) = 10 THEN 10 + RollAt(r, i + 2)
    ELSE RollAt(r, i) + RollAt(r, i + 1)

\* The index in r of the first roll of frame f (frames counted from 1).
RECURSIVE RefFrameStart(_, _)
RefFrameStart(r, f) ==
    IF f = 1 THEN 1
    ELSE LET i == RefFrameStart(r, f - 1)
         IN  IF RollAt(r, i) = 10 THEN i + 1 ELSE i + 2

\* The running total through frame f.
RECURSIVE RefTotal(_, _)
RefTotal(r, f) ==
    IF f = 0 THEN 0
    ELSE RefTotal(r, f - 1) + RefFrameScore(r, RefFrameStart(r, f))

(***************************************************************************)
(* C1.  When the game is complete, GetScore is the reference score of the  *)
(* accepted rolls, and each of the ten frames holds in totalScore the      *)
(* reference running total through that frame.                             *)
(***************************************************************************)
C1_ScoreMatchesReference ==
    Complete =>
        /\ Score = RefTotal(RollList, 10)
        /\ \A i \in 0 .. 9 : frames[i].totalScore = RefTotal(RollList, i + 1)

\* A complete game with strikes, spares and open frames in it.
C1_Witness ==
    /\ Complete
    /\ \E i, j, k \in 0 .. 9 :
          /\ frames[i].isStrike
          /\ frames[j].isSpare
          /\ ~frames[k].isStrike /\ ~frames[k].isSpare
    /\ Score > 100

(***************************************************************************)
(* C2.  Twelve RollStrike() calls on a fresh game: each is accepted, the   *)
(* game is not complete after the first eleven, and after the twelfth it   *)
(* is complete with a score of 300.                                        *)
(***************************************************************************)
C2_PerfectGame ==
    OnlyCalls("RollStrike", NumPins, 12) =>
        /\ Len(hist) <= 12
        /\ Len(hist) <= 11 =>
              /\ ~Complete
              /\ lastOp = "RollStrike" => lastResult = "ok"
        /\ Len(hist) = 12 => Complete /\ Score = 300

C2_Witness ==
    /\ OnlyCalls("RollStrike", NumPins, 12)
    /\ Len(hist) = 12
    /\ lastOp = "RollStrike"
    /\ lastResult = "ok"

(***************************************************************************)
(* C3.  The example game of RunExampleGame: every call is accepted, the    *)
(* game ends complete, frames 0..9 hold the cumulative totals 15, 24, 33,  *)
(* 58, 78, 93, 101, 110, 129, 149, and GetScore is 149.  The first of the  *)
(* two consecutive strikes (frame 3) is still waiting for one roll after   *)
(* the second strike, and the first roll of frame 5 completes it: 10 + 10  *)
(* + 5 on top of frame 2's 33.                                             *)
(***************************************************************************)
ExampleRolls == << 8, 2, 5, 4, 9, 0, 10, 10, 5, 5, 5, 3, 6, 3, 9, 1, 9, 1, 10 >>

ExampleTotals == << 15, 24, 33, 58, 78, 93, 101, 110, 129, 149 >>

C3_ExampleGame ==
    (pattern = ExampleGame /\ ~improvise) =>
        /\ Len(hist) < Len(ExampleGame) =>
              /\ lastResult \in {"none", "ok"}
              /\ ~Complete
        /\ \A i \in 1 .. Len(hist) :
              /\ i <= Len(ExampleGame)
              /\ hist[i].pins = ExampleRolls[i]
              /\ hist[i].op = ( CASE ExampleGame[i].kind = "pins" -> "Roll"
                                  [] ExampleGame[i].kind = "x"    -> "RollStrike"
                                  [] ExampleGame[i].kind = "/"    -> "RollSpare" )
        /\ Len(hist) = 8 =>
              /\ frames[3].bonusRolls = 1
              /\ frames[3].totalScore = 0
        /\ Len(hist) >= 9 =>
              /\ frames[3].currentScore = 25
              /\ frames[3].totalScore = 58
        /\ Len(hist) = Len(ExampleGame) =>
              /\ Complete
              /\ \A i \in 0 .. 9 : frames[i].totalScore = ExampleTotals[i + 1]
              /\ Score = 149

C3_Witness ==
    /\ pattern = ExampleGame
    /\ RollList = ExampleRolls
    /\ Complete

(***************************************************************************)
(* C4.  Twenty-one Roll(5) calls on a fresh game: each is accepted, the    *)
(* game is complete after the twenty-first and not before, and the score   *)
(* is then 150.                                                            *)
(***************************************************************************)
C4_AllSpares ==
    OnlyCalls("Roll", 5, 21) =>
        /\ Len(hist) <= 21
        /\ Len(hist) <= 20 =>
              /\ ~Complete
              /\ (lastOp = "Roll" /\ lastArg = 5) => lastResult = "ok"
        /\ Len(hist) = 21 => Complete /\ Score = 150

C4_Witness ==
    /\ OnlyCalls("Roll", 5, 21)
    /\ Len(hist) = 21
    /\ Complete

(***************************************************************************)
(* C5.  Twenty Roll(0) calls on a fresh game: each is accepted, the score  *)
(* is 0 after every one, the game is complete after the twentieth and not  *)
(* before, and no call after the twentieth is accepted.                    *)
(***************************************************************************)
C5_AllGutters ==
    OnlyCalls("Roll", 0, 20) =>
        /\ Len(hist) <= 20
        /\ Score = 0
        /\ Len(hist) <= 19 =>
              /\ ~Complete
              /\ (lastOp = "Roll" /\ lastArg = 0) => lastResult = "ok"
        /\ Len(hist) = 20 => Complete

\* The twenty-first Roll(0) has been made and rejected.
C5_Witness ==
    /\ OnlyCalls("Roll", 0, 20)
    /\ Len(hist) = 20
    /\ lastOp = "Roll"
    /\ lastArg = 0
    /\ lastResult = "GameComplete"

(***************************************************************************)
(* C6.  While the game is not complete, Roll(pinCount) with pinCount above *)
(* NumPins, or above NumPins less the active frame's recorded first roll,  *)
(* returns the invalid-roll error and leaves the cursor, every frame and   *)
(* GetScore as they were.                                                  *)
(***************************************************************************)
\* The step is a call Roll(lastArg') that the claim says must be refused.
InvalidRollCalled ==
    /\ lastOp' = "Roll"
    /\ ~Complete
    /\ \/ lastArg' > NumPins
       \/ /\ HasValue(frames[currentRound].pinsOnFirstRoll)
          /\ lastArg' > NumPins - frames[currentRound].pinsOnFirstRoll[1]

C6_InvalidRollRejected ==
    [][ InvalidRollCalled =>
            /\ lastResult' = "InvalidRollCount"
            /\ currentRound' = currentRound
            /\ frames' = frames
            /\ GetScore(frames') = GetScore(frames)
            /\ hist' = hist ]_vars

\* Roll(8) has just been refused on a frame whose first roll took 5 pins.
C6_Witness ==
    /\ lastOp = "Roll"
    /\ lastArg = 8
    /\ lastResult = "InvalidRollCount"
    /\ currentRound \in FrameIndex
    /\ frames[currentRound].pinsOnFirstRoll = <<5>>
    /\ ~HasValue(frames[currentRound].pinsOnSecondRoll)

(***************************************************************************)
(* C7.  Once the game is complete, every roll operation (Roll with any     *)
(* pin count, RollStrike, RollSpare) reports GameComplete and leaves the   *)
(* cursor and the frames as they were.                                     *)
(***************************************************************************)
C7_CompleteGameRejectsAll ==
    [][ Complete =>
            /\ lastResult' = "GameComplete"
            /\ currentRound' = currentRound
            /\ frames' = frames ]_vars

(***************************************************************************)
(* C8.  RollSpare() on an active frame without a first roll fails with     *)
(* InvalidSpareRoll and changes nothing; on an active frame whose first    *)
(* roll took p pins it returns what Roll(NumPins - p) returns and leaves   *)
(* the state Roll(NumPins - p) leaves, and when it is accepted on one of   *)
(* the first ten frames that frame ends a spare with one bonus roll        *)
(* pending and the cursor one frame further.                               *)
(***************************************************************************)
SpareCalled ==
    /\ lastOp' = "RollSpare"
    /\ currentRound \in FrameIndex

C8_RollSpare ==
    [][ SpareCalled =>
            LET first == frames[currentRound].pinsOnFirstRoll
            IN  IF ~HasValue(first)
                THEN /\ lastResult' = "InvalidSpareRoll"
                     /\ currentRound' = currentRound
                     /\ frames' = frames
                ELSE LET out == RollOutcome(currentRound, frames, NumPins - first[1])
                     IN  /\ lastResult' = out.result
                         /\ currentRound' = out.currentRound
                         /\ frames' = out.frames
                         /\ (lastResult' = "ok" /\ currentRound < FinalFrame) =>
                               /\ frames'[currentRound].isSpare
                               /\ frames'[currentRound].bonusRolls = 1
                               /\ frames'[currentRound].pinsOnSecondRoll = <<NumPins - first[1]>>
                               /\ currentRound' = currentRound + 1 ]_vars

\* RollSpare has just been accepted on one of the first ten frames, after a
\* first roll that took some pins.
C8_Witness ==
    /\ lastOp = "RollSpare"
    /\ lastResult = "ok"
    /\ currentRound \in 1 .. FinalFrame
    /\ frames[currentRound - 1].isSpare
    /\ frames[currentRound - 1].pinsOnFirstRoll = <<8>>

(***************************************************************************)
(* C9.  As the claim states it: IsGameComplete is false below cursor 9, at *)
(* cursor 9 true iff the final frame was neither a strike nor a spare, at  *)
(* cursor 10 true iff not (the final frame was a strike and still has      *)
(* bonus rolls pending), and true from cursor 11 on.                       *)
(***************************************************************************)
FinalFrameMarked == frames[FinalFrame - 1].isStrike \/ frames[FinalFrame - 1].isSpare

FinalStrikePending ==
    frames[FinalFrame - 1].isStrike /\ frames[FinalFrame - 1].bonusRolls > 0

C9_AsStated ==
    /\ currentRound < 9 => ~Complete
    /\ currentRound = 9 => (Complete <=> ~FinalFrameMarked)
    /\ currentRound = 10 => (Complete <=> ~FinalStrikePending)
    /\ currentRound >= 11 => Complete

(***************************************************************************)
(* C9, amended.  The cursor values are one higher: IsGameComplete is false *)
(* up to and including cursor 9 (the final frame is being played), at      *)
(* cursor 10 true iff the final frame was neither a strike nor a spare, at *)
(* cursor 11 true iff not (the final frame was a strike and still has      *)
(* bonus rolls pending), and true from cursor 12 on.                       *)
(***************************************************************************)
C9_CompletionByCursor ==
    /\ currentRound <= 9 => ~Complete
    /\ currentRound = 10 => (Complete <=> ~FinalFrameMarked)
    /\ currentRound = 11 => (Complete <=> ~FinalStrikePending)
    /\ currentRound >= 12 => Complete

\* The cursor is on the second bonus slot and a roll is still owed to the
\* strike of the final frame.
C9_Witness ==
    /\ currentRound = 11
    /\ FinalStrikePending
    /\ ~Complete

(***************************************************************************)
(* C10.  Whatever calls were made, accepted or refused, the two rolls of   *)
(* each of the twelve frame slots add up to at most NumPins (a roll not    *)
(* taken counting 0), and a frame whose first roll is a strike has no      *)
(* second roll.                                                            *)
(***************************************************************************)
C10_FramePins ==
    \A i \in FrameIndex :
        /\ ValueOr(frames[i].pinsOnFirstRoll, 0) + ValueOr(frames[i].pinsOnSecondRoll, 0)
              <= NumPins
        /\ frames[i].pinsOnFirstRoll = <<NumPins>> => ~HasValue(frames[i].pinsOnSecondRoll)

\* A roll has just been refused in a game that holds a strike frame and a
\* frame with two rolls.
C10_Witness ==
    /\ lastResult = "InvalidRollCount"
    /\ \E i, j \in FrameIndex :
          /\ frames[i].pinsOnFirstRoll = <<NumPins>>
          /\ HasValue(frames[j].pinsOnSecondRoll)
          /\ frames[j].pinsOnFirstRoll[1] + frames[j].pinsOnSecondRoll[1] = NumPins

(***************************************************************************)
(* A frame of the ten is finalized once the cursor has left it and no      *)
(* bonus roll is owed to it.                                               *)
(***************************************************************************)
PlayFrames == 0 .. (FinalFrame - 1)

Finalized(cr, fr, i) == i < cr /\ fr[i].bonusRolls = 0

(***************************************************************************)
(* C11.  A frame's totalScore changes in one step only: the roll that      *)
(* brings its bonusRolls from 1 to 0, or its own second roll when that     *)
(* leaves the frame open.  That step finalizes the frame; until then the   *)
(* totalScore is 0, and afterwards it never changes.  Among finalized      *)
(* frames totalScore does not decrease with the frame index.               *)
(***************************************************************************)
TotalsInOrder ==
    /\ \A i \in PlayFrames :
          ~Finalized(currentRound, frames, i) => frames[i].totalScore = 0
    /\ \A i, j \in PlayFrames :
          ( /\ i < j
            /\ Finalized(currentRound, frames, i)
            /\ Finalized(currentRound, frames, j) )
          => frames[i].totalScore <= frames[j].totalScore

TotalWrittenOnce ==
    \A i \in PlayFrames :
        /\ Finalized(currentRound, frames, i) =>
              /\ Finalized(currentRound', frames', i)
              /\ frames'[i].totalScore = frames[i].totalScore
        /\ frames'[i].totalScore # frames[i].totalScore =>
              /\ ~Finalized(currentRound, frames, i)
              /\ Finalized(currentRound', frames', i)
              /\ \/ frames[i].bonusRolls = 1 /\ frames'[i].bonusRolls = 0
                 \/ /\ i = currentRound
                    /\ HasValue(frames[i].pinsOnFirstRoll)
                    /\ HasValue(frames'[i].pinsOnSecondRoll)
                    /\ ~frames'[i].isSpare

C11_TotalScoreSetOnce == [] TotalsInOrder /\ [][TotalWrittenOnce]_vars

\* A strike frame and a later open frame are both finalized, and rolls have
\* been taken since.
C11_Witness ==
    \E i, j \in PlayFrames :
        /\ i < j
        /\ j + 1 < currentRound
        /\ frames[i].isStrike
        /\ ~frames[j].isStrike /\ ~frames[j].isSpare
        /\ Finalized(currentRound, frames, i)
        /\ Finalized(currentRound, frames, j)
        /\ 0 < frames[i].totalScore
        /\ frames[i].totalScore < frames[j].totalScore

(***************************************************************************)
(* C12.  A first roll below NumPins into the first bonus slot moves the    *)
(* cursor on only if the final frame was a spare; after a strike in the    *)
(* final frame the cursor stays on the slot for a second roll, so that a   *)
(* following Roll(b) with a + b above NumPins is refused as invalid.  A    *)
(* first roll below NumPins into the second bonus slot moves the cursor on *)
(* only if the final frame and the first bonus slot were both strikes.     *)
(***************************************************************************)
\* The step is an accepted first roll, not a strike, into bonus slot s.
OpenRollInto(s) ==
    /\ currentRound = s
    /\ lastResult' = "ok"
    /\ ~HasValue(frames[s].pinsOnFirstRoll)
    /\ lastArg' < NumPins

\* The step is Roll(b) after a final-frame strike and a first bonus roll a
\* below NumPins, with a + b above NumPins, the game not being complete.
OverfullBonusRoll ==
    /\ lastOp' = "Roll"
    /\ ~Complete
    /\ frames[FinalFrame - 1].isStrike
    /\ HasValue(frames[FinalFrame].pinsOnFirstRoll)
    /\ frames[FinalFrame].pinsOnFirstRoll[1] < NumPins
    /\ ~HasValue(frames[FinalFrame].pinsOnSecondRoll)
    /\ frames[FinalFrame].pinsOnFirstRoll[1] + lastArg' > NumPins

BonusSlotAdvance ==
    /\ OpenRollInto(FinalFrame) =>
          /\ currentRound' = FinalFrame + 1 => frames[FinalFrame - 1].isSpare
          /\ frames[FinalFrame - 1].isStrike => currentRound' = FinalFrame
    /\ OverfullBonusRoll =>
          /\ lastResult' = "InvalidRollCount"
          /\ frames' = frames
          /\ currentRound' = currentRound
    /\ OpenRollInto(FinalFrame + 1) =>
          ( currentRound' = FinalFrame + 2 =>
              frames[FinalFrame - 1].isStrike /\ frames[FinalFrame].isStrike )

C12_BonusSlotAdvance == [][BonusSlotAdvance]_vars

(***************************************************************************)
(* The number of rolls a game takes, read off the rolls alone: the final   *)
(* frame's own rolls, then two more rolls after a strike in it, one more   *)
(* after a spare, none after an open frame.                                *)
(***************************************************************************)
RollsNeeded(r) ==
    LET s == RefFrameStart(r, FinalFrame)
    IN  IF RollAt(r, s) = 10 THEN s + 2
        ELSE IF RollAt(r, s) + RollAt(r, s + 1) = 10 THEN s + 2
        ELSE s + 1

\* The game is complete exactly when the last roll it needs has been taken,
\* and no roll is accepted beyond it.
CompleteOnTime ==
    /\ Len(RollList) <= RollsNeeded(RollList)
    /\ Complete <=> Len(RollList) = RollsNeeded(RollList)

(***************************************************************************)
(* C13, as the claim states it: the game is not complete before the final  *)
(* frame has its rolls, and becomes complete right after the second roll   *)
(* of an open final frame, one accepted roll after a spare, two accepted   *)
(* rolls after a strike; a complete game has between 12 and 21 accepted    *)
(* rolls.                                                                  *)
(***************************************************************************)
C13_AsStated ==
    /\ CompleteOnTime
    /\ Complete => Len(hist) \in 12 .. 21

(***************************************************************************)
(* C13, amended: the same, with between 11 and 21 accepted rolls (nine     *)
(* strikes and an open final frame make 11).                               *)
(***************************************************************************)
C13_CompletionTiming ==
    /\ CompleteOnTime
    /\ Complete => Len(hist) \in 11 .. 21

\* A game just completed by the second of two bonus rolls after a strike in
\* the final frame, the first of them not a strike.
C13_Witness ==
    /\ Complete
    /\ lastResult = "ok"
    /\ frames[FinalFrame - 1].isStrike
    /\ HasValue(frames[FinalFrame].pinsOnFirstRoll)
    /\ ~frames[FinalFrame].isStrike
    /\ HasValue(frames[FinalFrame + 1].pinsOnFirstRoll)

(***************************************************************************)
(* C14.  The cursor never decreases; it changes only in a step whose call  *)
(* was accepted, and then by one; and each of the ten frames below the     *)
(* cursor has the rolls it needs: a first roll, and a second one unless    *)
(* the first was a strike.                                                 *)
(***************************************************************************)
FramesBelowCursorPlayed ==
    \A i \in PlayFrames :
        i < currentRound =>
            /\ HasValue(frames[i].pinsOnFirstRoll)
            /\ \/ frames[i].pinsOnFirstRoll = <<NumPins>>
               \/ HasValue(frames[i].pinsOnSecondRoll)

CursorStep ==
    /\ currentRound' >= currentRound
    /\ currentRound' # currentRound =>
          /\ lastResult' = "ok"
          /\ Len(hist') = Len(hist) + 1
          /\ currentRound' = currentRound + 1

C14_CursorAdvance == [] FramesBelowCursorPlayed /\ [][CursorStep]_vars

\* The cursor has passed a strike frame and a two-roll frame, and the last
\* call, refused, left it where it was.
C14_Witness ==
    /\ lastResult = "InvalidRollCount"
    /\ \E i, j \in PlayFrames :
          /\ i < currentRound /\ j < currentRound
          /\ frames[i].isStrike
          /\ HasValue(frames[j].pinsOnSecondRoll)

(***************************************************************************)
(* C15.  The two bonus slots are never scored on their own: their          *)
(* totalScore is always 0, so GetScore never takes its value from one of   *)
(* them, and once the game is complete GetScore is the totalScore of the   *)
(* final frame.                                                            *)
(***************************************************************************)
C15_BonusSlotsUnscored ==
    /\ frames[FirstBonusFrame - 1].totalScore = 0
    /\ frames[SecondBonusFrame - 1].totalScore = 0
    /\ Scored(frames) \subseteq PlayFrames
    /\ Complete => Score = frames[FinalFrame - 1].totalScore

\* A complete game in which both bonus slots were rolled into, the first
\* with a strike.
C15_Witness ==
    /\ Complete
    /\ frames[FirstBonusFrame - 1].isStrike
    /\ HasValue(frames[SecondBonusFrame - 1].pinsOnFirstRoll)
    /\ Score > 0

(***************************************************************************)
(* C16.  An accepted roll with the cursor at c changes, besides the        *)
(* cursor, only frames c, c-1 and c-2: every other frame is left as it     *)
(* was, and frames c-1 and c-2 are changed only if a bonus roll was owed   *)
(* to them before the roll.                                                *)
(***************************************************************************)
RollFrameEffect ==
    lastResult' = "ok" =>
        \A i \in FrameIndex :
            /\ (i < currentRound - 2 \/ i > currentRound) => frames'[i] = frames[i]
            /\ ( /\ i \in {currentRound - 2, currentRound - 1}
                 /\ frames[i].bonusRolls <= 0 )
               => frames'[i] = frames[i]

C16_RollFrameEffect == [][RollFrameEffect]_vars

\* A roll has just been credited to the two frames before the cursor's: the
\* first of two strikes is totalled, the second still owed a roll.
C16_Witness ==
    /\ lastResult = "ok"
    /\ currentRound \in 2 .. (FinalFrame - 1)
    /\ HasValue(frames[currentRound].pinsOnFirstRoll)
    /\ ~HasValue(frames[currentRound].pinsOnSecondRoll)
    /\ frames[currentRound - 2].isStrike
    /\ frames[currentRound - 2].totalScore > 0
    /\ frames[currentRound - 1].isStrike
    /\ frames[currentRound - 1].bonusRolls = 1

(***************************************************************************)
(* C17.  The step brings the bonusRolls of frame i to 0.                   *)
(***************************************************************************)
BonusResolved(i) == frames[i].bonusRolls > 0 /\ frames'[i].bonusRolls = 0

\* The totalScore of frame i - back after the step, 0 when there is no such
\* frame.
TotalBefore(i, back) == IF i >= back THEN frames'[i - back].totalScore ELSE 0

(***************************************************************************)
(* C17, as the claim states it: a frame whose bonusRolls reach 0 is        *)
(* totalled as the totalScore of the frame two positions before it (0 if   *)
(* there is none) plus its own currentScore.                               *)
(***************************************************************************)
C17_AsStated ==
    [][ \A i \in FrameIndex :
            BonusResolved(i) =>
                frames'[i].totalScore = TotalBefore(i, 2) + frames'[i].currentScore ]_vars

(***************************************************************************)
(* C17, amended: it is totalled as the totalScore of the frame just before *)
(* it (0 if there is none) plus its own currentScore.                      *)
(***************************************************************************)
C17_BonusTotal ==
    [][ \A i \in FrameIndex :
            BonusResolved(i) =>
                frames'[i].totalScore = TotalBefore(i, 1) + frames'[i].currentScore ]_vars

\* The first of two strikes has just been totalled by the first roll of the
\* frame after them, on top of a frame before it that scored.
C17_Witness ==
    /\ lastResult = "ok"
    /\ currentRound \in 3 .. (FinalFrame - 1)
    /\ HasValue(frames[currentRound].pinsOnFirstRoll)
    /\ ~HasValue(frames[currentRound].pinsOnSecondRoll)
    /\ frames[currentRound - 1].isStrike
    /\ frames[currentRound - 2].isStrike
    /\ frames[currentRound - 2].bonusRolls = 0
    /\ frames[currentRound - 3].totalScore > 0
    /\ frames[currentRound - 2].totalScore =
          frames[currentRound - 3].totalScore + frames[currentRound - 2].currentScore

(***************************************************************************)
(* C18.  Frames are finalized in index order: a finalized frame has every  *)
(* frame before it finalized, and its totalScore is the totalScore of the  *)
(* frame before it (0 for the first frame) plus its own currentScore; and  *)
(* a step that changes a frame's totalScore leaves the frame before it     *)
(* finalized.                                                              *)
(***************************************************************************)
RunningTotals ==
    \A i \in PlayFrames :
        Finalized(currentRound, frames, i) =>
            /\ i >= 1 => Finalized(currentRound, frames, i - 1)
            /\ frames[i].totalScore =
                  (IF i >= 1 THEN frames[i - 1].totalScore ELSE 0) + frames[i].currentScore

TotalAfterPredecessor ==
    \A i \in PlayFrames :
        (frames'[i].totalScore # frames[i].totalScore /\ i >= 1) =>
            Finalized(currentRound', frames', i - 1)

C18_FinalizedInOrder == [] RunningTotals /\ [][TotalAfterPredecessor]_vars

\* Two consecutive strikes resolved by successive rolls, the second of
\* which also totalled the open frame after them.
C18_Witness ==
    /\ lastResult = "ok"
    /\ currentRound \in 3 .. FinalFrame
    /\ frames[currentRound - 3].isStrike
    /\ frames[currentRound - 2].totalScore =
          frames[currentRound - 3].totalScore + frames[currentRound - 2].currentScore
    /\ ~HasValue(frames[currentRound].pinsOnFirstRoll)
    /\ frames[currentRound - 2].isStrike
    /\ HasValue(frames[currentRound - 1].pinsOnSecondRoll)
    /\ ~frames[currentRound - 1].isSpare
    /\ frames[currentRound - 1].totalScore =
          frames[currentRound - 2].totalScore + frames[currentRound - 1].currentScore
    /\ frames[currentRound - 1].currentScore > 0

(***************************************************************************)
(* C19.  GetScore never exceeds 300 and no step lowers it, the states      *)
(* where no frame is totalled and it returns the first frame's             *)
(* currentScore included.                                                  *)
(***************************************************************************)
MaxScore == 3 * NumPins * FinalFrame

ScoreBounded == Score <= MaxScore

ScoreNeverDrops == GetScore(frames') >= GetScore(frames)

C19_ScoreMonotoneBounded == [] ScoreBounded /\ [][ScoreNeverDrops]_vars

\* Two strikes in, nothing is totalled yet and GetScore returns the first
\* frame's points so far.
C19_Witness ==
    /\ lastResult = "ok"
    /\ Scored(frames) = {}
    /\ currentRound = 2
    /\ frames[0].isStrike
    /\ Score = 2 * NumPins

(***************************************************************************)
(* The indexes into frames that a call reads or writes with the cursor at  *)
(* cr.  IsGameComplete looks at the final frame from the bonus slots;      *)
(* Roll, when the game is not complete, uses the cursor's frame and the    *)
(* frames up to three before it, each behind its currentRound >= k guard;  *)
(* RollSpare takes frames[currentRound] before anything else.              *)
(***************************************************************************)
IsGameCompleteReads(cr) ==
    IF cr \in {FirstBonusFrame - 1, SecondBonusFrame - 1} THEN {FinalFrame - 1} ELSE {}

RollReads(cr, fr) ==
    IsGameCompleteReads(cr) \cup
        (IF IsGameComplete(cr, fr)
         THEN {}
         ELSE {cr} \cup {cr - k : k \in {j \in 1 .. 3 : cr >= j}})

RollSpareReads(cr) == {cr}

(***************************************************************************)
(* C20.  No call of Roll, RollStrike or RollSpare indexes frames outside   *)
(* 0 .. MaxFrames - 1, a RollSpare with the cursor at MaxFrames included.  *)
(***************************************************************************)
IndexesInRange ==
    /\ lastOp' = "RollSpare" => RollSpareReads(currentRound) \subseteq FrameIndex
    /\ RollReads(currentRound, frames) \subseteq FrameIndex

C20_IndexesInRange == [][IndexesInRange]_vars

====
